---- MODULE Spec2Model ----
(***************************************************************************)
(* SmartRenameDownloads: the background service worker (background.js)     *)
(* that answers chrome.downloads.onDeterminingFilename, its fixed-window   *)
(* rate limiter and its history/stats bookkeeping in chrome.storage.local. *)
(*                                                                         *)
(* Every download event starts one asynchronous task.  A task runs        *)
(* synchronously from one await to the next, so each action below is one   *)
(* such run; tasks interleave only at awaits.  A storage get reads the     *)
(* stored value in the step in which it resolves, a storage set writes it  *)
(* in the step in which it resolves.  Any awaited browser or network call  *)
(* may reject.                                                             *)
(***************************************************************************)
EXTENDS Integers, Sequences, FiniteSets, TLC

(* ------------------------------ bounds -------------------------------- *)

\* download events delivered in one run
MaxDownloads == 2

\* saves of the options page in one run
MaxSaves == 1

\* length of the captions that are enumerated exhaustively
MaxCaptionLen == 3

\* rejections of awaited browser calls (storage, badge, settings) in one run
MaxFaults == 1

(* --------------------------- program constants ------------------------ *)

\* CONFIG.RATE_LIMIT.maxPerMinute
maxPerMinute == 30

\* length of the rate-limit window in checkRateLimit, in ms
WindowMs == 60000

\* history.slice(0, 100) in addToHistory
HistoryCap == 100

\* CONFIG.DEFAULTS.maxImageSize, 5 * 1024 * 1024
maxImageSize == 5242880

\* CONFIG.DEFAULTS.minImageSize, 50 * 1024
minImageSize == 51200

(* ------------------------------ inputs -------------------------------- *)

\* the download events of a run, in the order they are delivered
Downloads == 1..MaxDownloads

\* instants at which Date.now() is observed (ms since the worker started)
Instants == {0, 59999, 60000, 60001, 120002}

\* byteLength of the fetched file: below minImageSize, ordinary, over the cap
FileSizes == {1024, 204800, 6291456}

\* download items: filename extension, extension of the last URL path
\* segment, MIME type reported by the browser
DownloadItems ==
  { [name |-> "jpg", url |-> "",    mime |-> "image/jpeg"],
    [name |-> "bin", url |-> "png", mime |-> ""],
    [name |-> "pdf", url |-> "",    mime |-> "application/pdf"],
    [name |-> "png", url |-> "pdf", mime |-> ""],
    [name |-> "",    url |-> "",    mime |-> "application/pdf"],
    [name |-> "zip", url |-> "",    mime |-> "application/zip"] }

\* the settings records the options page can have saved
SettingsChoices ==
  { [hfToken |-> "hf_token", enablePdfRenaming |-> TRUE,  skipSmallImages |-> TRUE,
     enableNotifications |-> TRUE, cleanCaptions |-> TRUE, maxWords |-> 5,
     addDateSuffix |-> FALSE],
    [hfToken |-> "",         enablePdfRenaming |-> TRUE,  skipSmallImages |-> FALSE,
     enableNotifications |-> TRUE, cleanCaptions |-> TRUE, maxWords |-> 5,
     addDateSuffix |-> FALSE],
    [hfToken |-> "hf_token", enablePdfRenaming |-> FALSE, skipSmallImages |-> FALSE,
     enableNotifications |-> FALSE, cleanCaptions |-> TRUE, maxWords |-> 5,
     addDateSuffix |-> FALSE] }

\* downloads renamed one after the other before the run starts, the last
\* maxPerMinute - 1 of them in the rate-limit window that is still open
PriorRuns == {0, maxPerMinute - 1}

\* the same for the runs of the storage race: a history one short of the cap
PriorRunsStore == {0, HistoryCap - 1}


VARIABLES
  now,               \* Date.now()
  requestCount,      \* module variable of background.js
  requestTimestamp,  \* module variable of background.js
  settings,          \* chrome.storage.sync[CONFIG.STORAGE.SETTINGS] merged over DEFAULTS
  history,           \* chrome.storage.local[CONFIG.STORAGE.HISTORY], newest first
  stats,             \* chrome.storage.local[CONFIG.STORAGE.STATS]
  pc,                \* per download: the await its task is suspended at
  phase,             \* per download: "try" or "catch" block of renameImage/renamePdf
  handle,            \* per download: 'image' | 'pdf' | 'other'
  snap,              \* per download: const settings of renameImage/renamePdf
  local,             \* per download: locals of its task (ext, finalName, error, ...)
  suggested,         \* per download: the arguments of the suggest calls made, in order
  trace,             \* per download: the stages its task has run, in order
  written,           \* per download: the entries its addToHistory calls have stored
  windowSucc,        \* successful checkRateLimit calls since the last window reset
  windowCalls,       \* remote model calls by tasks that consumed in the current window
  appendedOk,        \* history entries with success:true appended since install
  appendedFail,      \* history entries with success:false appended since install
  notifications,     \* chrome.notifications.create calls made by notify
  faults,            \* rejections injected so far
  saves,             \* saves of the options page so far
  probe,             \* options page: the last connection test and its result
  scan               \* pdf-extract.js: the locals of the running extractPdfPreviewText

vars == <<now, requestCount, requestTimestamp, settings, history, stats, pc, phase,
          handle, snap, local, suggested, trace, written, windowSucc, windowCalls,
          appendedOk, appendedFail, notifications, faults, saves, probe, scan>>

(* ------------------------------ helpers ------------------------------- *)

Min(a, b) == IF a < b THEN a ELSE b

\* the value a function returns, or a suggest call carries, when there is none
Null == <<>>

Methods == {"hf-api-image", "hf-api-pdf", "error"}

\* CONFIG.IMAGE_TYPES
IMAGE_TYPES == {"jpg", "jpeg", "png", "webp", "gif"}

\* isImage(downloadItem)
isImage(item) == item.name \in IMAGE_TYPES \/ item.url \in IMAGE_TYPES

\* isPdf(downloadItem)
isPdf(item) ==
  IF item.name = "pdf" \/ item.url = "pdf" THEN TRUE ELSE item.mime = "application/pdf"

\* mutant: the listener asks isPdf first
ClassifyPdfFirst(item) ==
  IF isPdf(item) THEN "pdf" ELSE IF isImage(item) THEN "image" ELSE "other"

\* the classification made by the onDeterminingFilename listener
Classify(item) == IF isImage(item) THEN "image" ELSE IF isPdf(item) THEN "pdf" ELSE "other"

\* getImageExtension(downloadItem)
getImageExtension(item) ==
  IF item.name \in IMAGE_TYPES THEN item.name
  ELSE IF item.mime = "image/jpeg" THEN "jpg"
  ELSE IF item.mime = "image/png" THEN "png"
  ELSE IF item.mime = "image/webp" THEN "webp"
  ELSE IF item.mime = "image/gif" THEN "gif"
  ELSE "jpg"

\* error messages (error.message of what is thrown)
ErrToken == "API token not configured. Click extension icon to set up."
ErrRateLimit == "Rate limit reached. Please wait."
ErrFetch == "Failed to fetch"
ErrTooLarge == "File too large"
ErrPrepare == "The source image could not be decoded."
ErrApi == "HTTP 500"
ErrBrowser == "browser call rejected"

\* the entry addToHistory stores for a success (id, timestamp, caption and
\* source are carried along unread and are left out)
SuccessEntry(d, kind, name) ==
  [success |-> TRUE, original |-> d, renamed |-> name, error |-> "", fileType |-> kind]

\* mutant: the failure entry is stored without its message
FailureEntryNoMessage(d, kind, msg) ==
  [success |-> FALSE, original |-> d, renamed |-> Null, error |-> "", fileType |-> kind]

\* the entry addToHistory stores for a failure
FailureEntry(d, kind, msg) ==
  [success |-> FALSE, original |-> d, renamed |-> Null, error |-> msg, fileType |-> kind]

\* addToHistory: history.unshift(entry); history.slice(0, 100)
Trimmed(hist, entry) == SubSeq(<<entry>> \o hist, 1, Min(Len(hist) + 1, HistoryCap))

\* the stats object updateStats builds when nothing is stored
EmptyStats ==
  [totalRenames |-> 0, successful |-> 0, failed |-> 0, bySource |-> [m \in Methods |-> 0]]

\* mutant: updateStats counts the rename but not its method
IncrementedNoSource(st, success, method) ==
  [totalRenames |-> st.totalRenames + 1,
   successful   |-> IF success THEN st.successful + 1 ELSE st.successful,
   failed       |-> IF success THEN st.failed ELSE st.failed + 1,
   bySource     |-> st.bySource]

\* updateStats: the increments applied to the stats object that was read
Incremented(st, success, method) ==
  [totalRenames |-> st.totalRenames + 1,
   successful   |-> IF success THEN st.successful + 1 ELSE st.successful,
   failed       |-> IF success THEN st.failed ELSE st.failed + 1,
   bySource     |-> [st.bySource EXCEPT ![method] = @ + 1]]

\* checkRateLimit: elapsed, the reset test, the limit test
Elapsed(t, ts) == t - ts
WindowExpired(t, ts) == Elapsed(t, ts) > WindowMs
CountAfterReset(t, ts, count) == IF WindowExpired(t, ts) THEN 0 ELSE count
StampAfterReset(t, ts) == IF WindowExpired(t, ts) THEN t ELSE ts
\* checkRateLimit: Math.ceil(waitTime / 1000) with waitTime = 60000 - elapsed,
\* the seconds the rate-limit message tells the user to wait
WaitSeconds(t, ts) == (WindowMs - Elapsed(t, ts) + 999) \div 1000

\* mutant: the limit test lets one call too many through
LimitReachedLate(count) == count > maxPerMinute

LimitReached(count) == count >= maxPerMinute

(* ------------------------------ strings ------------------------------- *)

\* a JavaScript string is the sequence of its characters
LowerLetters ==
  <<"a", "b", "c", "d", "e", "f", "g", "h", "i", "j", "k", "l", "m",
    "n", "o", "p", "q", "r", "s", "t", "u", "v", "w", "x", "y", "z">>

UpperLetters ==
  <<"A", "B", "C", "D", "E", "F", "G", "H", "I", "J", "K", "L", "M",
    "N", "O", "P", "Q", "R", "S", "T", "U", "V", "W", "X", "Y", "Z">>

Digits == {"0", "1", "2", "3", "4", "5", "6", "7", "8", "9"}

Range(seq) == {seq[i] : i \in DOMAIN seq}

\* \w of a JavaScript regular expression without the u flag
IsWordChar(c) == c \in Range(LowerLetters) \cup Range(UpperLetters) \cup Digits \cup {"_"}

\* \s
IsSpace(c) == c \in {" ", "\t", "\n", "\r", "\f"}

\* [a-z0-9]
IsSlugChar(c) == c \in Range(LowerLetters) \cup Digits

\* receiver.method(): the receiver of a chained call is evaluated once, then
\* the method is applied to its value
Chain(receiver, Method(_)) == CHOOSE result \in {Method(value) : value \in {receiver}} : TRUE

\* String.prototype.toLowerCase
toLowerCase(str) ==
  [i \in DOMAIN str |->
     IF \E k \in DOMAIN UpperLetters : UpperLetters[k] = str[i]
     THEN LowerLetters[CHOOSE k \in DOMAIN UpperLetters : UpperLetters[k] = str[i]]
     ELSE str[i]]

\* String.prototype.trim
RECURSIVE trimStart(_)
trimStart(str) ==
  IF str # <<>> /\ IsSpace(str[1]) THEN trimStart(Tail(str)) ELSE str

RECURSIVE trimEnd(_)
trimEnd(str) ==
  IF str # <<>> /\ IsSpace(str[Len(str)]) THEN trimEnd(SubSeq(str, 1, Len(str) - 1)) ELSE str

trim(str) == Chain(trimStart(str), trimEnd)

\* .replace(/[^\w\s-]/g, '')
RemovePunctuation(str) ==
  SelectSeq(str, LAMBDA c : IsWordChar(c) \/ IsSpace(c) \/ c = "-")

\* the pieces of a string, one after the other
RECURSIVE Concat(_)
Concat(pieces) ==
  IF Len(pieces) = 0 THEN <<>>
  ELSE IF Len(pieces) = 1 THEN pieces[1]
  ELSE Concat(SubSeq(pieces, 1, Len(pieces) \div 2))
         \o Concat(SubSeq(pieces, Len(pieces) \div 2 + 1, Len(pieces)))

\* .replace(/\s+/g, ' '): the first character of a run of white space becomes
\* a space, the others go
NormalizeSpaces(str) ==
  Concat([i \in 1..Len(str) |->
            IF ~IsSpace(str[i]) THEN <<str[i]>>
            ELSE IF i > 1 /\ IsSpace(str[i - 1]) THEN <<>>
            ELSE <<" ">>])

\* the alternatives of /\b(a|an|the)\b/, in the order the regular expression tries them
Articles == << <<"a">>, <<"a", "n">>, <<"t", "h", "e">> >>

\* \b at the gap before position i of str
WordBoundary(str, i) ==
  (i > 1 /\ IsWordChar(str[i - 1])) # (i <= Len(str) /\ IsWordChar(str[i]))

\* alternative word matches at position i of str, between two word boundaries
ArticleMatches(str, i, word) ==
  /\ i + Len(word) - 1 <= Len(str)
  /\ SubSeq(str, i, i + Len(word) - 1) = word
  /\ WordBoundary(str, i)
  /\ WordBoundary(str, i + Len(word))

\* the length of the match of /\b(a|an|the)\b/ at position i, 0 when none
ArticleAt(str, i) ==
  IF \E k \in DOMAIN Articles : ArticleMatches(str, i, Articles[k])
  THEN Len(Articles[CHOOSE k \in DOMAIN Articles :
                      /\ ArticleMatches(str, i, Articles[k])
                      /\ \A j \in 1..(k - 1) : ~ArticleMatches(str, i, Articles[j])])
  ELSE 0

\* .replace(/\b(a|an|the)\b/g, '') from position i on
RECURSIVE RemoveArticlesFrom(_, _)
RemoveArticlesFrom(str, i) ==
  IF i > Len(str) THEN <<>>
  ELSE IF ArticleAt(str, i) > 0 THEN RemoveArticlesFrom(str, i + ArticleAt(str, i))
  ELSE <<str[i]>> \o RemoveArticlesFrom(str, i + 1)

RemoveArticles(str) == RemoveArticlesFrom(str, 1)

\* .split(' ').filter((w) => w.length > 0)
RECURSIVE Words(_)
Words(str) ==
  IF str = <<>> THEN <<>>
  ELSE IF str[1] = " " THEN Words(Tail(str))
  ELSE LET stops == {i \in DOMAIN str : str[i] = " "}
           end == IF stops = {} THEN Len(str) + 1
                  ELSE CHOOSE i \in stops : \A j \in stops : i <= j
       IN <<SubSeq(str, 1, end - 1)>> \o Words(SubSeq(str, end, Len(str)))

\* .join('-')
RECURSIVE Join(_)
Join(words) ==
  IF words = <<>> THEN <<>>
  ELSE IF Len(words) = 1 THEN words[1]
  ELSE words[1] \o <<"-">> \o Join(Tail(words))

\* new Date().toISOString().split('T')[0]
Today == <<"2", "0", "2", "6", "-", "1", "1", "-", "0", "1">>

\* the fallback literal of captionToFilename
Fallback == <<"d", "o", "w", "n", "l", "o", "a", "d">>

\* captionToFilename: the text before the words are counted
Cleaned(caption, s) ==
  LET text ==
        Chain(Chain(Chain(Chain(caption, toLowerCase), RemovePunctuation), NormalizeSpaces),
              trim)
  IN IF s.cleanCaptions
     THEN Chain(Chain(Chain(text, RemoveArticles), NormalizeSpaces), trim)
     ELSE text

\* captionToFilename: words.slice(0, settings.maxWords || 5).join('-')
Limited(caption, s) ==
  LET n == IF s.maxWords = 0 THEN 5 ELSE s.maxWords
      slice(words) == SubSeq(words, 1, Min(n, Len(words)))
  IN Chain(Chain(Chain(Cleaned(caption, s), Words), slice), Join)

\* captionToFilename(caption, settings)
captionToFilename(caption, s) ==
  IF s.addDateSuffix THEN Limited(caption, s) \o <<"-">> \o Today
  ELSE IF Limited(caption, s) = <<>> THEN Fallback
  ELSE Limited(caption, s)

(* ---------------------------- the endpoint ---------------------------- *)

\* choices[0].message.content of a response body: a string, absent, or a
\* value of another type, truthy (5, [], {}) or falsy (0, null, false)
StringContent(text) == [type |-> "string", text |-> text, truthy |-> text # <<>>]
NoContent == [type |-> "absent", text |-> <<>>, truthy |-> FALSE]
OtherContent(truthy) == [type |-> "other", text |-> <<>>, truthy |-> truthy]

\* what fetch(CONFIG.HF_CHAT_COMPLETIONS_URL) gives: a response with a
\* status and a body whose error.message, message and content may be
\* there ("" when absent); a body that is not JSON; no response at all
Reply(status, error, message, content) ==
  [net |-> TRUE, status |-> status, json |-> TRUE, error |-> error,
   message |-> message, content |-> content]

NotJson(status) ==
  [net |-> TRUE, status |-> status, json |-> FALSE, error |-> "", message |-> "",
   content |-> NoContent]

NetworkFailure ==
  [net |-> FALSE, status |-> 0, json |-> FALSE, error |-> "", message |-> "",
   content |-> NoContent]

\* no response yet
NoResponse ==
  [net |-> FALSE, status |-> -1, json |-> FALSE, error |-> "", message |-> "",
   content |-> NoContent]

Cat == <<"c", "a", "t">>

\* response.ok
ResponseOk(resp) == 200 <= resp.status /\ resp.status <= 299

\* `HTTP ${response.status}`
HttpMessage(status) == "HTTP " \o ToString(status)

\* error.message of the TypeError thrown by (non-string).trim()
ErrNotAFunction == "extractTextContent(...).trim is not a function"

\* callChatCompletions: data?.error?.message || data?.message || `HTTP ${response.status}`
ErrorMessage(resp) ==
  IF resp.json /\ resp.error # "" THEN resp.error
  ELSE IF resp.json /\ resp.message # "" THEN resp.message
  ELSE HttpMessage(resp.status)

\* extractTextContent(data): data?.choices?.[0]?.message?.content || ''
extractTextContent(resp) ==
  IF resp.json /\ resp.content.truthy THEN resp.content ELSE StringContent(<<>>)

\* callChatCompletions: what captionImage, nameFromText and testConnection
\* get: a thrown error with its message, or the trimmed text
callChatCompletions(resp) ==
  IF ~resp.net THEN [threw |-> TRUE, message |-> "Failed to fetch", text |-> <<>>]
  ELSE IF ~ResponseOk(resp) THEN [threw |-> TRUE, message |-> ErrorMessage(resp), text |-> <<>>]
  ELSE IF extractTextContent(resp).type # "string"
  THEN [threw |-> TRUE, message |-> ErrNotAFunction, text |-> <<>>]
  ELSE [threw |-> FALSE, message |-> "", text |-> trim(extractTextContent(resp).text)]

\* the two answers of the endpoint the download runs take: a caption, a failure
PlainResponses == {Reply(200, "", "", StringContent(Cat)), Reply(500, "", "", NoContent)}

\* String.prototype.toUpperCase
toUpperCase(str) ==
  [i \in DOMAIN str |->
     IF \E k \in DOMAIN LowerLetters : LowerLetters[k] = str[i]
     THEN UpperLetters[CHOOSE k \in DOMAIN LowerLetters : LowerLetters[k] = str[i]]
     ELSE str[i]]

\* String.prototype.includes
Includes(str, sub) ==
  \E i \in 1..(Len(str) - Len(sub) + 1) : SubSeq(str, i, i + Len(sub) - 1) = sub

\* the acknowledgement token of the connection test
OK == <<"O", "K">>

MsgConnected == "Connection successful! Ready to rename."
MsgUnexpected == "Connection worked, but unexpected response. Try a different model."

\* mutant: any answer that does not throw counts as a success
ProbeResultLoose(resp) ==
  IF callChatCompletions(resp).threw
  THEN [success |-> FALSE, message |-> callChatCompletions(resp).message]
  ELSE [success |-> TRUE, message |-> MsgConnected]

\* testConnection(token, model): the record it resolves with
ProbeResult(resp) ==
  IF callChatCompletions(resp).threw
  THEN [success |-> FALSE, message |-> callChatCompletions(resp).message]
  ELSE IF Includes(toUpperCase(callChatCompletions(resp).text), OK)
  THEN [success |-> TRUE, message |-> MsgConnected]
  ELSE [success |-> FALSE, message |-> MsgUnexpected]

\* HTTP statuses the endpoint answers with
Statuses == {200, 201, 400, 401, 402, 403, 404, 429, 500}

\* error.message and message of a response body ("" when absent)
PayloadErrors == {"", "Invalid credentials"}
PayloadMessages == {"", "Model is overloaded"}

\* choices[0].message.content of a response body
Contents ==
  { NoContent, OtherContent(TRUE), OtherContent(FALSE),
    StringContent(<<>>), StringContent(<<" ">>), StringContent(Cat),
    StringContent(<<"O", "k", ".">>), StringContent(<<" ", "o", "k", "a", "y">>) }

\* every outcome of the fetch of callChatCompletions
Responses ==
  {Reply(st, e, m, c) : st \in Statuses, e \in PayloadErrors, m \in PayloadMessages,
                        c \in Contents}
  \cup {NotJson(st) : st \in Statuses} \cup {NetworkFailure}

\* characters of the enumerated captions: letters (a and an are articles),
\* an upper-case letter, a digit, a space, a hyphen, an underscore, a
\* punctuation mark, a non-ASCII letter
CaptionAlphabet == {"a", "n", "A", "7", " ", "-", "_", "!", "é"}

RECURSIVE StringsOver(_, _)
StringsOver(alphabet, n) ==
  IF n = 0 THEN {<<>>}
  ELSE StringsOver(alphabet, n - 1)
       \cup {<<c>> \o str : c \in alphabet, str \in {x \in StringsOver(alphabet, n - 1) :
                                                       Len(x) = n - 1}}

\* "a white cat sitting on floor"
WhiteCat ==
  <<"a", " ", "w", "h", "i", "t", "e", " ", "c", "a", "t", " ", "s", "i", "t", "t",
    "i", "n", "g", " ", "o", "n", " ", "f", "l", "o", "o", "r">>

\* longer captions: the documented example, a hyphen between spaces, a
\* hyphenated word, a preposition between two words, the article "the",
\* a word of 61 letters
CaptionExamples ==
  { WhiteCat, [i \in 1..61 |-> "x"],
    <<"c", "a", "t", " ", "-", " ", "d", "o", "g">>,
    <<"w", "e", "l", "l", "-", "l", "i", "t", " ", "c", "a", "t">>,
    <<"c", "a", "t", " ", "i", "n", " ", "b", "o", "x">>,
    <<"T", "h", "e", " ", "c", "a", "t", ".">> }

\* the captions handed to captionToFilename
CaptionInputs == StringsOver(CaptionAlphabet, MaxCaptionLen) \cup CaptionExamples

\* 2xx answers of the endpoint carrying these captions
CaptionResponses == {Reply(200, "", "", StringContent(c)) : c \in CaptionInputs}

\* no connection test has been made
NoProbe ==
  [tested |-> FALSE, rejected |-> FALSE, resp |-> NoResponse,
   result |-> [success |-> FALSE, message |-> ""]]

(* ----------------------- the PDF text extractor ----------------------- *)

\* positions in a string are counted from 0, as in JavaScript

\* str[i]; "" stands for undefined
At(str, i) == IF i >= 0 /\ i < Len(str) THEN str[i + 1] ELSE ""

\* str.slice(from, to)
Slice(str, from, to) == SubSeq(str, from + 1, Min(to, Len(str)))

\* pat occurs in str at position i
StartsAt(str, pat, i) ==
  /\ i >= 0 /\ i + Len(pat) <= Len(str)
  /\ SubSeq(str, i + 1, i + Len(pat)) = pat

\* the least element of a non-empty set of numbers
Least(S) == CHOOSE i \in S : \A j \in S : i <= j

\* str.indexOf(pat, from)
IndexOf(str, pat, from) ==
  LET hits == {i \in from..(Len(str) - Len(pat)) : StartsAt(str, pat, i)}
  IN IF hits = {} THEN -1 ELSE Least(hits)

\* str.includes(pat)
Contains(str, pat) == IndexOf(str, pat, 0) # -1

\* strings.join(' ')
RECURSIVE JoinSpaced(_)
JoinSpaced(strings) ==
  IF strings = <<>> THEN <<>>
  ELSE IF Len(strings) = 1 THEN strings[1]
  ELSE strings[1] \o <<" ">> \o JoinSpaced(Tail(strings))

\* .replace(/[\u0000-\u001F]+/g, ' '), with the control characters the
\* buffers of the model hold
ReplaceControls(str) ==
  LET IsControl(c) == c \in {"\t", "\n", "\r", "\f"}
  IN Concat([i \in 1..Len(str) |->
               IF ~IsControl(str[i]) THEN <<str[i]>>
               ELSE IF i > 1 /\ IsControl(str[i - 1]) THEN <<>>
               ELSE <<" ">>])

\* cleanupText(s)
cleanupText(str) == Chain(Chain(Chain(str, NormalizeSpaces), ReplaceControls), trim)

\* isUsefulText(s): at least 6 characters, enough of them [A-Za-z0-9], and
\* not /^[A-Z]{1,4}\+?[A-Za-z0-9]{2,10}$/
isUsefulText(str) ==
  LET IsAlnum(c) == c \in Range(LowerLetters) \cup Range(UpperLetters) \cup Digits
      IsFontName ==
        \E k \in 1..4 :
          /\ k <= Len(str)
          /\ \A i \in 1..k : str[i] \in Range(UpperLetters)
          /\ LET rest == SubSeq(str, k + 1, Len(str))
                 tail == IF rest # <<>> /\ rest[1] = "+" THEN Tail(rest) ELSE rest
             IN /\ Len(tail) >= 2 /\ Len(tail) <= 10
                /\ \A i \in DOMAIN tail : IsAlnum(tail[i])
  IN /\ Len(str) >= 6
     /\ Cardinality({i \in DOMAIN str : IsAlnum(str[i])}) >= Min(6, Len(str) \div 4)
     /\ ~IsFontName

\* the backslash at position i of str is not the second character of an
\* escape: an even number of backslashes stands immediately before it
EscapeAt(str, i) ==
  /\ At(str, i) = "\\"
  /\ Least({k \in 0..i : At(str, i - 1 - k) # "\\"}) % 2 = 0

\* decodePdfLiteralString(s); DecodedAt(i) is what the loop adds to out for
\* position i: nothing for a character an escape before it has taken, the
\* character an escape stands for (n r t f \ ( ), nothing for a line
\* continuation, any other character for itself), and a character outside
\* escapes as it is (the buffers of the model hold no \b and no octal escapes)
decodePdfLiteralString(str) ==
  LET DecodedAt(i) ==
        LET next == At(str, i + 1)
        IN IF i > 0 /\ EscapeAt(str, i - 1) THEN <<>>
           ELSE IF /\ i > 1 /\ At(str, i) = "\n" /\ At(str, i - 1) = "\r"
                   /\ EscapeAt(str, i - 2)
           THEN <<>>
           ELSE IF ~EscapeAt(str, i) THEN <<At(str, i)>>
           ELSE IF next \in {"", "\n", "\r"} THEN <<>>
           ELSE IF next = "n" THEN <<"\n">>
           ELSE IF next = "r" THEN <<"\r">>
           ELSE IF next = "t" THEN <<"\t">>
           ELSE IF next = "f" THEN <<"\f">>
           ELSE <<next>>
  IN Concat([i \in 1..Len(str) |-> DecodedAt(i - 1)])

\* extractLiteralStrings: the loop over /\((?:\\.|[^\\()]){3,400}\)/g from
\* position i on, with the results found so far. LiteralEnd(start) is where
\* the elements (?:\\.|[^\\()]) that begin at start end: at a parenthesis
\* outside an escape, at a backslash that no character other than a line end
\* follows, or at the end of the string; every character before it but the
\* second of an escape begins an element
RECURSIVE LiteralsFrom(_, _, _)
LiteralsFrom(str, i, results) ==
  LET LiteralEnd(start) ==
        LET rest == Slice(str, start, Len(str))
            stops(j) ==
              \/ j = Len(rest)
              \/ /\ ~(j > 0 /\ EscapeAt(rest, j - 1))
                 /\ \/ At(rest, j) \in {"(", ")"}
                    \/ EscapeAt(rest, j) /\ At(rest, j + 1) \in {"", "\n", "\r"}
        IN start + Least({j \in 0..Len(rest) : stops(j)})
      LiteralElements(start, end) ==
        LET rest == Slice(str, start, end)
        IN Cardinality({j \in 0..(Len(rest) - 1) : ~(j > 0 /\ EscapeAt(rest, j - 1))})
      open == IndexOf(str, <<"(">>, i)
      end == LiteralEnd(open + 1)
      elements == LiteralElements(open + 1, end)
      decoded == cleanupText(decodePdfLiteralString(Slice(str, open + 1, end)))
      found == IF isUsefulText(decoded) THEN Append(results, decoded) ELSE results
  IN IF open = -1 THEN results
     ELSE IF elements >= 3 /\ elements <= 400 /\ At(str, end) = ")"
     THEN IF Len(JoinSpaced(found)) > 3500 THEN found
          ELSE LiteralsFrom(str, end + 1, found)
     ELSE LiteralsFrom(str, open + 1, results)

\* extractLiteralStrings(streamText): the ( ... ) strings of the first 400000
\* characters (the buffers of the model hold no <...> hex strings, so the
\* second loop adds nothing)
extractLiteralStrings(streamText) == LiteralsFrom(Slice(streamText, 0, 400000), 0, <<>>)

\* stripXmlTags(xml): .replace(/<[^>]*>/g, ' '). A match reaches from the
\* first < after the last > before it to the next >; TagStart(i) is where
\* the match that covers position i begins, -1 when none does
stripXmlTags(xml) ==
  LET Greatest(S) == CHOOSE i \in S : \A j \in S : i >= j
      TagStart(i) ==
        LET closes == {j \in 0..(i - 1) : At(xml, j) = ">"}
            open == IndexOf(xml, <<"<">>, IF closes = {} THEN 0 ELSE Greatest(closes) + 1)
        IN IF IndexOf(xml, <<">">>, i) # -1 /\ open # -1 /\ open <= i THEN open ELSE -1
  IN Concat([i \in 1..Len(xml) |->
               IF TagStart(i - 1) = -1 THEN <<xml[i]>>
               ELSE IF TagStart(i - 1) = i - 1 THEN <<" ">>
               ELSE <<>>])

\* str.replace(/pat/g, rep) for a pattern that has no metacharacters and
\* cannot overlap itself
ReplaceAll(str, pat, rep) ==
  Concat([i \in 1..Len(str) |->
            IF StartsAt(str, pat, i - 1) THEN rep
            ELSE IF \E k \in 1..(Len(pat) - 1) : StartsAt(str, pat, i - 1 - k) THEN <<>>
            ELSE <<str[i]>>])

\* decodeHtmlEntities(s)
decodeHtmlEntities(str) ==
  LET amp == ReplaceAll(str, <<"&", "a", "m", "p", ";">>, <<"&">>)
      lt == ReplaceAll(amp, <<"&", "l", "t", ";">>, <<"<">>)
      gt == ReplaceAll(lt, <<"&", "g", "t", ";">>, <<">">>)
      quot == ReplaceAll(gt, <<"&", "q", "u", "o", "t", ";">>, <<"\"">>)
  IN ReplaceAll(quot, <<"&", "#", "3", "9", ";">>, <<"'">>)

\* extractInfoTitle(pdfLatin): the group of the leftmost match of
\* /\/Title\s*\(([^)]{1,300})\)/, decoded
extractInfoTitle(pdfLatin) ==
  LET KwTitle == <<"/", "T", "i", "t", "l", "e">>
      RECURSIVE SkipSpaces(_)
      SkipSpaces(i) == IF IsSpace(At(pdfLatin, i)) THEN SkipSpaces(i + 1) ELSE i
      Open(i) == SkipSpaces(i + Len(KwTitle))
      Close(i) == IndexOf(pdfLatin, <<")">>, Open(i) + 1)
      InfoTitleAt(i) ==
        /\ StartsAt(pdfLatin, KwTitle, i)
        /\ At(pdfLatin, Open(i)) = "("
        /\ Close(i) # -1 /\ Close(i) - (Open(i) + 1) >= 1 /\ Close(i) - (Open(i) + 1) <= 300
      hits == {i \in 0..(Len(pdfLatin) - 1) : InfoTitleAt(i)}
  IN IF hits = {} THEN <<>>
     ELSE decodePdfLiteralString(Slice(pdfLatin, Open(Least(hits)) + 1, Close(Least(hits))))

\* extractXmpTitle(pdfLatin); RdfLiOr is the group of the leftmost match of
\* /<rdf:li[^>]*>([\s\S]*?)<\/rdf:li>/i in the snippet, or the snippet when
\* there is none
extractXmpTitle(pdfLatin) ==
  LET DcTitleOpen == <<"<", "d", "c", ":", "t", "i", "t", "l", "e">>
      DcTitleClose == <<"<", "/", "d", "c", ":", "t", "i", "t", "l", "e", ">">>
      RdfLiOpen == <<"<", "r", "d", "f", ":", "l", "i">>
      RdfLiClose == <<"<", "/", "r", "d", "f", ":", "l", "i", ">">>
      start == IndexOf(pdfLatin, DcTitleOpen, 0)
      end == IndexOf(pdfLatin, DcTitleClose, start)
      snippet == Slice(pdfLatin, start, end + Len(DcTitleClose))
      lower == toLowerCase(snippet)
      content(i) == IndexOf(lower, <<">">>, i + Len(RdfLiOpen)) + 1
      matches(i) ==
        /\ StartsAt(lower, RdfLiOpen, i)
        /\ content(i) # 0
        /\ IndexOf(lower, RdfLiClose, content(i)) # -1
      hits == {i \in 0..(Len(snippet) - 1) : matches(i)}
      first == Least(hits)
      RdfLiOr ==
        IF hits = {} THEN snippet
        ELSE Slice(snippet, content(first), IndexOf(lower, RdfLiClose, content(first)))
  IN IF start = -1 THEN <<>>
     ELSE IF end = -1 THEN <<>>
     ELSE trim(decodeHtmlEntities(stripXmlTags(RdfLiOr)))

\* a value of an option of the caller: a finite number, NaN, or undefined
Number(n) == [kind |-> "number", value |-> n]
NaN == [kind |-> "NaN", value |-> 0]
Undefined == [kind |-> "undefined", value |-> 0]

\* clampInt(n, min, max); the numbers of the model are whole, so Math.floor
\* leaves them as they are
clampInt(n, min, max) ==
  LET x == IF n.kind = "number" THEN n.value ELSE min
      least == IF max < x THEN max ELSE x
  IN IF min > least THEN min ELSE least

\* 'stream'
KwStream ==
  <<"s", "t", "r", "e", "a", "m">>

\* 'endstream'
KwEndstream ==
  <<"e", "n", "d", "s", "t", "r", "e", "a", "m">>

\* /stream\r?\n/ matches at position i: the length of the match, 0 for none
StreamReAt(str, i) ==
  IF ~StartsAt(str, KwStream, i) THEN 0
  ELSE IF At(str, i + 6) = "\n" THEN 7
  ELSE IF At(str, i + 6) = "\r" /\ At(str, i + 7) = "\n" THEN 8
  ELSE 0

\* streamRe.exec(pdfLatin) with lastIndex: match.index, or -1 for null
StreamReExec(str, lastIndex) ==
  LET hits == {i \in lastIndex..(Len(str) - 1) : StreamReAt(str, i) # 0}
  IN IF hits = {} THEN -1 ELSE Least(hits)

\* the compressed form of data: the mark ~ and the data; nothing else inflates
Deflated(data) == <<"~">> \o data

\* inflateFlate(u8) where DecompressionStream is available or not: null when
\* it is undefined and when the stream raises, the inflated bytes otherwise
inflateFlate(u8, available) ==
  IF available /\ u8 # <<>> /\ u8[1] = "~" THEN [null |-> FALSE, bytes |-> Tail(u8)]
  ELSE [null |-> TRUE, bytes |-> <<>>]

\* the locals of extractPdfPreviewText and extractTextFromEarlyStreams before
\* a call; visited is the list of the loop bodies run, for the properties
NoScan ==
  [pc |-> "idle", latin |-> <<>>, available |-> FALSE,
   callerMaxChars |-> Undefined, callerMaxStreams |-> Undefined,
   maxChars |-> 0, maxStreams |-> 0, title |-> <<>>, excerpt |-> <<>>,
   out |-> <<>>, total |-> 0, lastIndex |-> 0, streamsSeen |-> 0,
   streamKeywordIdx |-> 0, endstreamIdx |-> 0, rawStreamBytes |-> <<>>,
   isFlate |-> FALSE, visited |-> <<>>]

\* the rest of a loop body from latin1Decoder.decode(decodedBytes) on
Decoded(sc, decodedBytes) ==
  LET strings == extractLiteralStrings(decodedBytes)
      joined == JoinSpaced(strings)
      pushed == strings # <<>> /\ Len(joined) > 30
  IN [sc EXCEPT !.pc = "loop",
                !.out = IF pushed THEN Append(@, joined) ELSE @,
                !.total = IF pushed THEN @ + Len(joined) + 1 ELSE @,
                !.streamsSeen = @ + 1,
                !.visited = Append(@, [idx |-> sc.streamKeywordIdx,
                                       flate |-> sc.isFlate, inflated |-> TRUE,
                                       text |-> IF pushed THEN joined ELSE <<>>])]

\* a scan that gives up at the stream it cannot inflate
SkippedAborts(sc) ==
  [sc EXCEPT !.pc = "done",
             !.visited = Append(@, [idx |-> sc.streamKeywordIdx, flate |-> TRUE,
                                    inflated |-> FALSE, text |-> <<>>])]

\* the else branch of the inflate: streamsSeen++; continue
Skipped(sc) ==
  [sc EXCEPT !.pc = "loop",
             !.streamsSeen = @ + 1,
             !.visited = Append(@, [idx |-> sc.streamKeywordIdx, flate |-> TRUE,
                                    inflated |-> FALSE, text |-> <<>>])]

(* ------------------------------- Init --------------------------------- *)

NoLocal ==
  [ext |-> "", finalName |-> Null, resp |-> NoResponse,
   error |-> "", hist |-> <<>>, st |-> EmptyStats, win |-> -1, newName |-> Null]

\* the history after n downloads were renamed one after the other
PriorHistory(n) == [i \in 1..n |-> SuccessEntry(i - n - 1, "image", <<Cat, "jpg">>)]

PriorStats(n) ==
  [totalRenames |-> n, successful |-> n, failed |-> 0,
   bySource |-> [m \in Methods |-> IF m = "hf-api-image" THEN n ELSE 0]]

\* the worker has renamed n downloads one after the other, the last
\* Min(n, maxPerMinute - 1) of them in the open window; s is the saved settings
InitWith(n, s) ==
  /\ now = 0
  /\ requestTimestamp = 0
  /\ requestCount = Min(n, maxPerMinute - 1)
  /\ windowSucc = Min(n, maxPerMinute - 1)
  /\ windowCalls = [w \in Instants |-> IF w = 0 THEN Min(n, maxPerMinute - 1) ELSE 0]
  /\ history = PriorHistory(n)
  /\ stats = PriorStats(n)
  /\ appendedOk = n
  /\ appendedFail = 0
  /\ settings = s
  /\ pc = [d \in Downloads |-> "idle"]
  /\ phase = [d \in Downloads |-> "try"]
  /\ handle = [d \in Downloads |-> "other"]
  /\ snap = [d \in Downloads |-> settings]
  /\ local = [d \in Downloads |-> NoLocal]
  /\ suggested = [d \in Downloads |-> <<>>]
  /\ trace = [d \in Downloads |-> <<>>]
  /\ written = [d \in Downloads |-> <<>>]
  /\ notifications = 0
  /\ faults = 0
  /\ saves = 0
  /\ probe = NoProbe
  /\ scan = NoScan

Init == \E n \in PriorRuns, s \in SettingsChoices : InitWith(n, s)

\* the settings of a configured installation
Configured ==
  [hfToken |-> "hf_token", enablePdfRenaming |-> TRUE, skipSmallImages |-> TRUE,
   enableNotifications |-> TRUE, cleanCaptions |-> TRUE, maxWords |-> 5,
   addDateSuffix |-> FALSE]

InitRate == \E n \in PriorRuns : InitWith(n, Configured)

InitStore == \E n \in PriorRunsStore : InitWith(n, Configured)

(* ------------------------------ actions ------------------------------- *)

\* mutant: the error is noted and the rename is tried again from the fetch
CaughtRetries(d, msg) ==
  /\ phase' = [phase EXCEPT ![d] = "try"]
  /\ pc' = [pc EXCEPT ![d] = "badge"]
  /\ local' = [local EXCEPT ![d].error = msg]

\* the catch block of renameImage/renamePdf is entered with error.message =
\* msg: addToHistory({success: false, ...}) is called and awaits its get
Caught(d, msg) ==
  /\ phase' = [phase EXCEPT ![d] = "catch"]
  /\ pc' = [pc EXCEPT ![d] = "histGet"]
  /\ local' = [local EXCEPT ![d].error = msg]

\* mutant: the listener's catch block logs the error and does not answer
FatalErrorSilent(d) ==
  /\ pc' = [pc EXCEPT ![d] = "done"]
  /\ trace' = [trace EXCEPT ![d] = Append(@, "fatal")]
  /\ UNCHANGED suggested

\* the promise of renameImage/renamePdf rejects: the listener's catch block
\* calls suggest()
FatalError(d) ==
  /\ pc' = [pc EXCEPT ![d] = "done"]
  /\ trace' = [trace EXCEPT ![d] = Append(@, "fatal")]
  /\ suggested' = [suggested EXCEPT ![d] = Append(@, Null)]

\* chrome.downloads.onDeterminingFilename listener, up to its first await
OnDeterminingFilename(d, item) ==
  /\ pc[d] = "idle"
  /\ \A e \in Downloads : e < d => pc[e] # "idle"
  /\ handle' = [handle EXCEPT ![d] = Classify(item)]
  /\ local' = [local EXCEPT ![d].ext =
                 IF Classify(item) = "image" THEN getImageExtension(item) ELSE "pdf"]
  /\ IF Classify(item) = "other"
     THEN /\ suggested' = [suggested EXCEPT ![d] = Append(@, Null)]
          /\ pc' = [pc EXCEPT ![d] = "done"]
     ELSE /\ pc' = [pc EXCEPT ![d] = "settings"]
          /\ UNCHANGED suggested
  /\ UNCHANGED <<now, requestCount, requestTimestamp, settings, history, stats, phase,
                 snap, trace, windowSucc, windowCalls, appendedOk, appendedFail,
                 notifications, faults, saves, written, probe, scan>>

\* mutant: the rename goes on to the network without calling checkRateLimit
checkRateLimitSkipped(d) ==
  /\ pc' = [pc EXCEPT ![d] = "badge"]
  /\ local' = [local EXCEPT ![d].win = requestTimestamp]
  /\ UNCHANGED <<requestCount, requestTimestamp, windowSucc, phase, trace>>

\* checkRateLimit() called by download d at time now
checkRateLimit(d) ==
  LET count == CountAfterReset(now, requestTimestamp, requestCount)
      stamp == StampAfterReset(now, requestTimestamp)
  IN /\ requestTimestamp' = stamp
     /\ IF LimitReached(count)
        THEN /\ requestCount' = count
             /\ windowSucc' = IF stamp = requestTimestamp THEN windowSucc ELSE 0
             /\ Caught(d, ErrRateLimit)
             /\ trace' = [trace EXCEPT ![d] = Append(@, "limited")]
        ELSE /\ requestCount' = count + 1
             /\ windowSucc' = IF stamp = requestTimestamp THEN windowSucc + 1 ELSE 1
             /\ pc' = [pc EXCEPT ![d] = "badge"]
             /\ local' = [local EXCEPT ![d].win = stamp]
             /\ trace' = [trace EXCEPT ![d] = Append(@, "consume")]
             /\ UNCHANGED phase

\* mutant: renamePdf does not look at enablePdfRenaming
PdfDisabledIgnored(d) == FALSE

\* renamePdf: if (!settings.enablePdfRenaming) return null
PdfDisabled(d) == handle[d] = "pdf" /\ ~settings.enablePdfRenaming

\* mutant: the rename does not test the token before it goes on
TokenMissingUnnoticed == FALSE

\* renameImage/renamePdf: if (!settings.hfToken)
TokenMissing == settings.hfToken = ""

\* renameImage/renamePdf from the resolution of getSettings() to the first
\* await of the try block: the PDF gate, the token test, checkRateLimit()
RenameBegin(d) ==
  /\ pc[d] = "settings"
  /\ snap' = [snap EXCEPT ![d] = settings]
  /\ IF PdfDisabled(d)
     THEN /\ pc' = [pc EXCEPT ![d] = "return"]
          /\ UNCHANGED <<requestCount, requestTimestamp, windowSucc, local, phase, trace>>
     ELSE IF TokenMissing
     THEN /\ Caught(d, ErrToken)
          /\ UNCHANGED <<requestCount, requestTimestamp, windowSucc, trace>>
     ELSE checkRateLimit(d)
  /\ UNCHANGED <<now, settings, history, stats, handle, suggested, windowCalls,
                 appendedOk, appendedFail, notifications, faults, saves, written,
                 probe, scan>>

\* await updateBadge('...') of the try block resolves; fetchFile is called
BadgeShown(d) ==
  /\ pc[d] = "badge"
  /\ pc' = [pc EXCEPT ![d] = "fetch"]
  /\ trace' = [trace EXCEPT ![d] = Append(@, "fetch")]
  /\ UNCHANGED <<now, requestCount, requestTimestamp, settings, history, stats, phase,
                 handle, snap, local, suggested, windowSucc, windowCalls, appendedOk,
                 appendedFail, notifications, faults, saves, written, probe, scan>>

\* mutant: the minimum-size test compares the wrong way round
TooSmallInverted(d, size) == snap[d].skipSmallImages /\ size > minImageSize

\* renameImage: settings.skipSmallImages && imageBuffer.byteLength < settings.minImageSize
TooSmall(d, size) == snap[d].skipSmallImages /\ size < minImageSize

\* the stages a fetched buffer of `size` bytes adds to the trace of d: that a
\* small image arrived while skipping is on, and the stage that follows
FetchedTags(d, size, next) ==
  (IF handle[d] = "image" /\ snap[d].skipSmallImages /\ size < minImageSize
   THEN <<"small">> ELSE <<>>)
  \o (IF next \in {"prepare", "extract"} THEN <<next>> ELSE <<>>)

\* fetchFile(url, settings.maxImageSize) settles: the response is not ok or
\* the network fails (ok = FALSE), or a buffer of `size` bytes arrives; then
\* the minimum-size test of renameImage
FetchFile(d, ok, size) ==
  /\ pc[d] = "fetch"
  /\ IF ~ok THEN Caught(d, ErrFetch)
     ELSE IF size > maxImageSize THEN Caught(d, ErrTooLarge)
     ELSE IF handle[d] = "image" /\ TooSmall(d, size)
     THEN /\ pc' = [pc EXCEPT ![d] = "return"]
          /\ UNCHANGED <<local, phase>>
     ELSE /\ pc' = [pc EXCEPT ![d] = IF handle[d] = "image" THEN "prepare" ELSE "extract"]
          /\ UNCHANGED <<local, phase>>
  /\ trace' = [trace EXCEPT ![d] =
                 IF ok /\ size <= maxImageSize THEN @ \o FetchedTags(d, size, pc'[d])
                 ELSE @]
  /\ UNCHANGED <<now, requestCount, requestTimestamp, settings, history, stats, handle,
                 snap, suggested, windowSucc, windowCalls, appendedOk, appendedFail,
                 notifications, faults, saves, written, probe, scan>>

\* the remote call is issued by a task that consumed in window local[d].win
RemoteIssued(d) ==
  /\ pc' = [pc EXCEPT ![d] = "remote"]
  /\ trace' = [trace EXCEPT ![d] = Append(@, "remote")]
  /\ windowCalls' = [windowCalls EXCEPT ![local[d].win] = @ + 1]
  /\ UNCHANGED <<local, phase>>

\* await prepareImageForAPI(imageBuffer) settles; captionImage is called
PrepareImage(d, ok) ==
  /\ pc[d] = "prepare"
  /\ IF ok THEN RemoteIssued(d)
     ELSE Caught(d, ErrPrepare) /\ UNCHANGED <<trace, windowCalls>>
  /\ UNCHANGED <<now, requestCount, requestTimestamp, settings, history, stats, handle,
                 snap, suggested, windowSucc, appendedOk, appendedFail, notifications,
                 faults, saves, written, probe, scan>>

\* await extractPdfPreviewText(pdfBuffer, ...) resolves; buildPdfPrompt;
\* nameFromText is called
ExtractPdf(d) ==
  /\ pc[d] = "extract"
  /\ RemoteIssued(d)
  /\ UNCHANGED <<now, requestCount, requestTimestamp, settings, history, stats, handle,
                 snap, suggested, windowSucc, appendedOk, appendedFail, notifications,
                 faults, saves, written, probe, scan>>

\* captionImage / nameFromText settles with what callChatCompletions makes
\* of the endpoint's answer: a throw enters the catch block, otherwise the
\* trimmed content is the caption; captionToFilename;
\* addToHistory({success: true, ...}) is called
RemoteCall(d, resp) ==
  /\ pc[d] = "remote"
  /\ pc' = [pc EXCEPT ![d] = "histGet"]
  /\ IF callChatCompletions(resp).threw
     THEN /\ phase' = [phase EXCEPT ![d] = "catch"]
          /\ local' = [local EXCEPT ![d].resp = resp,
                                    ![d].error = callChatCompletions(resp).message]
     ELSE /\ local' = [local EXCEPT ![d].resp = resp,
                                    ![d].finalName =
                         <<captionToFilename(callChatCompletions(resp).text, snap[d]),
                           local[d].ext>>]
          /\ UNCHANGED phase
  /\ UNCHANGED <<now, requestCount, requestTimestamp, settings, history, stats, handle,
                 snap, suggested, trace, windowSucc, windowCalls, appendedOk, appendedFail,
                 notifications, faults, saves, written, probe, scan>>

\* the entry the running block hands to addToHistory
EntryOf(d) ==
  IF phase[d] = "try" THEN SuccessEntry(d, handle[d], local[d].finalName)
  ELSE FailureEntry(d, handle[d], local[d].error)

\* addToHistory: chrome.storage.local.get resolves; unshift, slice; set is called
HistoryGet(d) ==
  /\ pc[d] = "histGet"
  /\ local' = [local EXCEPT ![d].hist = Trimmed(history, EntryOf(d))]
  /\ pc' = [pc EXCEPT ![d] = "histSet"]
  /\ UNCHANGED <<now, requestCount, requestTimestamp, settings, history, stats, phase,
                 handle, snap, suggested, trace, windowSucc, windowCalls, appendedOk,
                 appendedFail, notifications, faults, saves, written, probe, scan>>

\* addToHistory: chrome.storage.local.set resolves; updateStats is called
HistorySet(d) ==
  /\ pc[d] = "histSet"
  /\ history' = local[d].hist
  /\ written' = [written EXCEPT ![d] = Append(@, local[d].hist[1])]
  /\ pc' = [pc EXCEPT ![d] = "statsGet"]
  /\ trace' = [trace EXCEPT ![d] =
                 Append(@, IF phase[d] = "try" THEN "appendOk" ELSE "appendFail")]
  /\ appendedOk' = IF phase[d] = "try" THEN appendedOk + 1 ELSE appendedOk
  /\ appendedFail' = IF phase[d] = "try" THEN appendedFail ELSE appendedFail + 1
  /\ UNCHANGED <<now, requestCount, requestTimestamp, settings, stats, phase, handle,
                 snap, local, suggested, windowSucc, windowCalls, notifications, faults, saves,
                 probe, scan>>

\* the method tag the running block hands to updateStats
MethodOf(d) ==
  IF phase[d] = "catch" THEN "error"
  ELSE IF handle[d] = "image" THEN "hf-api-image" ELSE "hf-api-pdf"

\* updateStats: chrome.storage.local.get resolves; the increments; set is called
StatsGet(d) ==
  /\ pc[d] = "statsGet"
  /\ local' = [local EXCEPT ![d].st = Incremented(stats, phase[d] = "try", MethodOf(d))]
  /\ pc' = [pc EXCEPT ![d] = "statsSet"]
  /\ UNCHANGED <<now, requestCount, requestTimestamp, settings, history, stats, phase,
                 handle, snap, suggested, trace, windowSucc, windowCalls, appendedOk,
                 appendedFail, notifications, faults, saves, written, probe, scan>>

\* updateStats: chrome.storage.local.set resolves; updateBadge is called
StatsSet(d) ==
  /\ pc[d] = "statsSet"
  /\ stats' = local[d].st
  /\ pc' = [pc EXCEPT ![d] = "badgeEnd"]
  /\ trace' = [trace EXCEPT ![d] =
                 Append(@, IF phase[d] = "try" THEN "statsOk" ELSE "statsFail")]
  /\ UNCHANGED <<now, requestCount, requestTimestamp, settings, history, phase, handle,
                 snap, local, suggested, windowSucc, windowCalls, appendedOk, appendedFail,
                 notifications, faults, saves, written, probe, scan>>

\* await updateBadge of the end of the block resolves; notify is called
BadgeEnd(d) ==
  /\ pc[d] = "badgeEnd"
  /\ pc' = [pc EXCEPT ![d] = "notify"]
  /\ UNCHANGED <<now, requestCount, requestTimestamp, settings, history, stats, phase,
                 handle, snap, local, suggested, trace, windowSucc, windowCalls,
                 appendedOk, appendedFail, notifications, faults, saves, written,
                 probe, scan>>

\* mutant: the catch block returns the name as well
ReturnedAlways(d) == local[d].finalName

\* what the block that is running returns: finalName (try) or null (catch)
Returned(d) == IF phase[d] = "try" THEN local[d].finalName ELSE Null

\* notify: its own getSettings() resolves; chrome.notifications.create unless
\* notifications are off; the block returns finalName (try) or null (catch)
Notify(d) ==
  /\ pc[d] = "notify"
  /\ notifications' = IF settings.enableNotifications THEN notifications + 1
                      ELSE notifications
  /\ local' = [local EXCEPT ![d].newName = Returned(d)]
  /\ pc' = [pc EXCEPT ![d] = "return"]
  /\ UNCHANGED <<now, requestCount, requestTimestamp, settings, history, stats, phase,
                 handle, snap, suggested, trace, windowSucc, windowCalls, appendedOk,
                 appendedFail, faults, saves, written, probe, scan>>

\* the listener's async function resumes with the value renameImage/renamePdf
\* returned: suggest({filename: newName, ...}) or suggest()
Answer(d) ==
  /\ pc[d] = "return"
  /\ suggested' = [suggested EXCEPT ![d] = Append(@, local[d].newName)]
  /\ pc' = [pc EXCEPT ![d] = "done"]
  /\ UNCHANGED <<now, requestCount, requestTimestamp, settings, history, stats, phase,
                 handle, snap, local, trace, windowSucc, windowCalls, appendedOk,
                 appendedFail, notifications, faults, saves, written, probe, scan>>

\* the awaits of the try block whose promise comes from the browser
TryAwaits == {"badge", "histGet", "histSet", "statsGet", "statsSet", "badgeEnd", "notify"}

\* an awaited browser call of the try block rejects: the catch block runs
RejectInTry(d) ==
  /\ faults < MaxFaults
  /\ phase[d] = "try"
  /\ pc[d] \in TryAwaits
  /\ faults' = faults + 1
  /\ Caught(d, ErrBrowser)
  /\ UNCHANGED <<now, requestCount, requestTimestamp, settings, history, stats, handle,
                 snap, suggested, trace, windowSucc, windowCalls, appendedOk, appendedFail,
                 notifications, saves, written, probe, scan>>

\* getSettings() of renameImage/renamePdf, or an awaited call of the catch
\* block, rejects: renameImage/renamePdf rejects
RejectOutOfRename(d) ==
  /\ faults < MaxFaults
  /\ \/ pc[d] = "settings"
     \/ phase[d] = "catch" /\ pc[d] \in TryAwaits
  /\ faults' = faults + 1
  /\ FatalError(d)
  /\ UNCHANGED <<now, requestCount, requestTimestamp, settings, history, stats, phase,
                 handle, snap, local, windowSucc, windowCalls, appendedOk,
                 appendedFail, notifications, saves, written, probe, scan>>

\* time passes
Tick(t) ==
  /\ t > now
  /\ now' = t
  /\ UNCHANGED <<requestCount, requestTimestamp, settings, history, stats, pc, phase,
                 handle, snap, local, suggested, trace, windowSucc, windowCalls,
                 appendedOk, appendedFail, notifications, faults, saves, written,
                 probe, scan>>

\* saveSettings of the options page: chrome.storage.sync.set
saveSettings(s) ==
  /\ saves < MaxSaves
  /\ s # settings
  /\ settings' = s
  /\ saves' = saves + 1
  /\ UNCHANGED <<now, requestCount, requestTimestamp, history, stats, pc, phase, handle,
                 snap, local, suggested, trace, windowSucc, windowCalls, appendedOk,
                 appendedFail, notifications, faults, written, probe, scan>>

\* options page: testConnection(token, model) settles after the endpoint
\* answered with resp; every statement of testConnection is inside its try
\* block, so it resolves with the record of the try or of the catch
testConnection(resp) ==
  /\ probe.resp # resp
  /\ probe' = [tested |-> TRUE, rejected |-> FALSE, resp |-> resp,
               result |-> ProbeResult(resp)]
  /\ UNCHANGED <<now, requestCount, requestTimestamp, settings, history, stats, pc, phase,
                 handle, snap, local, suggested, trace, written, windowSucc, windowCalls,
                 appendedOk, appendedFail, notifications, faults, saves, scan>>

\* one step of the task of download d; the environment answers the fetch
\* with (ok, size) from Oks x Sizes and the remote call with a response
\* from Resps
TaskStep(d, Oks, Sizes, Resps) ==
  \/ RenameBegin(d)
  \/ BadgeShown(d)
  \/ \E ok \in Oks, size \in Sizes : FetchFile(d, ok, size)
  \/ \E ok \in Oks : PrepareImage(d, ok)
  \/ ExtractPdf(d)
  \/ \E resp \in Resps : RemoteCall(d, resp)
  \/ HistoryGet(d)
  \/ HistorySet(d)
  \/ StatsGet(d)
  \/ StatsSet(d)
  \/ BadgeEnd(d)
  \/ Notify(d)
  \/ Answer(d)

\* any step of download d with every answer of the environment
AnyStep(d) == TaskStep(d, BOOLEAN, FileSizes, PlainResponses)

\* a step of download d in which fetch and remote call succeed
GoodStep(d) == TaskStep(d, {TRUE}, {204800}, {Reply(200, "", "", StringContent(Cat))})

\* one item of each class: an image, a PDF, another file
OneOfEach ==
  { [name |-> "jpg", url |-> "", mime |-> "image/jpeg"],
    [name |-> "pdf", url |-> "", mime |-> "application/pdf"],
    [name |-> "zip", url |-> "", mime |-> "application/zip"] }

Next ==
  \/ \E d \in Downloads, item \in OneOfEach : OnDeterminingFilename(d, item)
  \/ \E d \in Downloads : AnyStep(d)
  \/ \E d \in Downloads : RejectInTry(d)
  \/ \E d \in Downloads : RejectOutOfRename(d)

Spec == Init /\ [][Next]_vars

\* the rate limiter over time: downloads whose awaited browser calls
\* resolve, and the clock
NextRate ==
  \/ \E d \in Downloads, item \in OneOfEach : OnDeterminingFilename(d, item)
  \/ \E d \in Downloads : AnyStep(d)
  \/ \E t \in Instants : Tick(t)

SpecRate == InitRate /\ [][NextRate]_vars

\* the storage race: image and PDF downloads whose fetch and remote call
\* succeed, in a store that holds no entry or is one entry short of its cap
NextStore ==
  \/ \E d \in Downloads, item \in OneOfEach : OnDeterminingFilename(d, item)
  \/ \E d \in Downloads : GoodStep(d)

SpecStore == InitStore /\ [][NextStore]_vars

\* one download while the options page saves settings
NextSettings ==
  \/ \E item \in OneOfEach : OnDeterminingFilename(1, item)
  \/ AnyStep(1)
  \/ \E s \in SettingsChoices : saveSettings(s)

SpecSettings == Init /\ [][NextSettings]_vars

\* one download of every kind of item, also items that pass both tests
NextClassify ==
  \/ \E item \in DownloadItems : OnDeterminingFilename(1, item)
  \/ AnyStep(1)
  \/ RejectInTry(1)
  \/ RejectOutOfRename(1)

SpecClassify == Init /\ [][NextClassify]_vars

\* one download answered by the endpoint in every way
NextApi ==
  \/ \E item \in OneOfEach : OnDeterminingFilename(1, item)
  \/ TaskStep(1, {TRUE}, {204800}, Responses)
  
SpecApi == InitRate /\ [][NextApi]_vars

\* the slug options of the options page; a maxWords of 0 stands for an
\* empty or zero field
SlugSettings ==
  { [Configured EXCEPT !.cleanCaptions = cc, !.maxWords = mw, !.addDateSuffix = ds] :
      cc \in BOOLEAN, mw \in {0, 1, 2, 4}, ds \in BOOLEAN }

\* captionToFilename on every caption and every choice of slug options: one
\* image or PDF download whose remote call returns the caption
InitSlug == \E s \in SlugSettings : InitWith(0, s)

NextSlug ==
  \/ \E item \in OneOfEach : OnDeterminingFilename(1, item)
  \/ TaskStep(1, {TRUE}, {204800}, CaptionResponses)

SpecSlug == InitSlug /\ [][NextSlug]_vars

\* the connection test of the options page, answered in every way
NextProbe == \E resp \in Responses : testConnection(resp)

SpecProbe == InitRate /\ [][NextProbe]_vars

(* ------------------- the calls of the PDF extractor ------------------- *)

\* the most stream objects a buffer of the model holds
MaxObjects == 3

\* the buffers of the model: a header, a title part and up to MaxObjects
\* stream objects.
\* The page texts TextA, TextB and TextC have more than 100 characters and
\* differ in their first word; TextShort has fewer than 30.
\* The stream objects are two plain page streams, a FlateDecode page stream,
\* a FlateDecode stream that does not inflate, one that inflates to nothing,
\* a plain stream with little text, and a stream without its endstream; the
\* endstream keyword is followed by a line end or by a space.
\* The title part is nothing, an Info title of more than 200 characters, or
\* an XMP title together with an Info title; it stands before at most one
\* stream.
PdfBuffers ==
  LET
      Prose ==
        <<"q", "u", "a", "r", "t", "e", "r", "l", "y", " ", "r", "e", "p", "o", "r", "t", " ", "o",
          "f", " ", "t", "h", "e", " ", "h", "a", "r", "b", "o", "u", "r", " ", "b", "o", "a", "r",
          "d", " ", "w", "i", "t", "h", " ", "f", "i", "g", "u", "r", "e", "s", " ", "f", "o", "r",
          " ", "c", "a", "r", "g", "o", " ", "a", "n", "d", " ", "f", "e", "r", "r", "y", " ", "t",
          "r", "a", "f", "f", "i", "c", " ", "i", "n", " ", "2", "0", "2", "4", " ", "a", "n", "d",
          " ", "t", "h", "e", " ", "o", "u", "t", "l", "o", "o", "k">>
      PdfHeader ==
        <<"%", "P", "D", "F", "-", "1", ".", "7", "\n">>
      PlainDict ==
        <<"<", "<", "/", "L", "e", "n", "g", "t", "h", " ", "9", ">", ">", "\n">>
      FlateDict ==
        <<"<", "<", "/", "F", "i", "l", "t", "e", "r", "/", "F", "l", "a", "t", "e", "D", "e", "c",
          "o", "d", "e", ">", ">", "\n">>
      Endobj ==
        <<"e", "n", "d", "o", "b", "j", "\n">>
      KwTitle ==
        <<"/", "T", "i", "t", "l", "e">>
      XmpPacket ==
        <<"<", "d", "c", ":", "t", "i", "t", "l", "e", ">", "<", "r", "d", "f", ":", "A", "l", "t",
          ">", "<", "r", "d", "f", ":", "l", "i", " ", "x", "m", "l", ":", "l", "a", "n", "g", "=",
          "\"", "x", "-", "d", "e", "f", "a", "u", "l", "t", "\"", ">", "T", "o", "m", " ", "&",
          "a", "m", "p", ";", " ", "J", "e", "r", "r", "y", "<", "/", "r", "d", "f", ":", "l", "i",
          ">", "<", "/", "r", "d", "f", ":", "A", "l", "t", ">", "<", "/", "d", "c", ":", "t", "i",
          "t", "l", "e", ">", "\n">>
      TextA == <<"A", "l", "p", "h", "a", " ">> \o Prose
      TextB == <<"B", "e", "t", "a", " ">> \o Prose
      TextC == <<"G", "a", "m", "m", "a", " ">> \o Prose
      TextShort == <<"I", "n", "v", "o", "i", "c", "e", " ", "2", "0", "2", "4">>
      Show(text) ==
        <<"B", "T", " ", "(">> \o text \o <<")", " ", "T", "j", " ", "E", "T", "\n">>
      StreamKinds ==
        {[dict |-> PlainDict, data |-> Show(TextA), closed |-> TRUE],
         [dict |-> PlainDict, data |-> Show(TextB), closed |-> TRUE],
         [dict |-> FlateDict, data |-> Deflated(Show(TextC)), closed |-> TRUE],
         [dict |-> FlateDict, data |-> <<"x", "\\", "(", "y">>, closed |-> TRUE],
         [dict |-> FlateDict, data |-> Deflated(<<>>), closed |-> TRUE],
         [dict |-> PlainDict, data |-> Show(TextShort), closed |-> TRUE],
         [dict |-> PlainDict, data |-> Show(TextB), closed |-> FALSE]}
      Eols == {"\n", " "}
      StreamObject(kind, eol) ==
        kind.dict \o KwStream \o <<"\n">> \o kind.data
          \o (IF kind.closed THEN KwEndstream \o <<eol>> \o Endobj ELSE <<>>)
      RECURSIVE Objects(_, _)
      Objects(kinds, eol) ==
        IF kinds = <<>> THEN <<>>
        ELSE StreamObject(kinds[1], eol) \o Objects(Tail(kinds), eol)
      TitleParts ==
        {<<>>,
         KwTitle \o <<" ", "(">> \o TextA \o <<" ">> \o TextB \o <<")", "\n">>,
         XmpPacket \o KwTitle \o <<"(">> \o TextShort \o <<")", "\n">>}
      shapes == UNION {[1..n -> StreamKinds] : n \in 0..MaxObjects}
      choices == {c \in TitleParts \X Eols \X shapes : c[1] = <<>> \/ Len(c[3]) <= 1}
  IN {PdfHeader \o c[1] \o Objects(c[3], c[2]) : c \in choices}

\* the options of the callers: none, pdfMaxChars and pdfMaxStreams below the
\* lower limits, an unparsed number, and values above and below the limits
PdfOptions ==
  {[maxChars |-> Undefined, maxStreams |-> Undefined],
   [maxChars |-> Number(100), maxStreams |-> Number(2)],
   [maxChars |-> NaN, maxStreams |-> Undefined],
   [maxChars |-> Number(20000), maxStreams |-> Number(0)]}

\* extractPdfPreviewText(pdfArrayBuffer, opts) up to the call of
\* extractTextFromEarlyStreams, in a browser where DecompressionStream is
\* available or not; the title is
\* cleanupText(extractXmpTitle(latin) || extractInfoTitle(latin) || '').slice(0, 200)
extractPdfPreviewText(pdfArrayBuffer, opts, available) ==
  /\ scan.pc = "idle"
  /\ LET Nullish(option, fallback) ==
           IF option.kind = "undefined" THEN Number(fallback) ELSE option
         xmp == extractXmpTitle(pdfArrayBuffer)
         title == IF xmp # <<>> THEN xmp ELSE extractInfoTitle(pdfArrayBuffer)
     IN scan' = [NoScan EXCEPT
                   !.pc = "loop", !.latin = pdfArrayBuffer, !.available = available,
                   !.callerMaxChars = opts.maxChars,
                   !.callerMaxStreams = opts.maxStreams,
                   !.maxChars = clampInt(Nullish(opts.maxChars, 2500), 200, 12000),
                   !.maxStreams = clampInt(Nullish(opts.maxStreams, 12), 1, 100),
                   !.title = Slice(cleanupText(title), 0, 200)]
  /\ UNCHANGED <<now, requestCount, requestTimestamp, settings, history, stats, pc, phase,
                 handle, snap, local, suggested, trace, written, windowSucc, windowCalls,
                 appendedOk, appendedFail, notifications, faults, saves, probe>>

\* the condition of the while loop of extractTextFromEarlyStreams
LoopCondition ==
  /\ StreamReExec(scan.latin, scan.lastIndex) # -1
  /\ scan.streamsSeen < scan.maxStreams
  /\ scan.total < scan.maxChars

\* the locals a loop body sets before it looks at the filter
Matched ==
  LET idx == StreamReExec(scan.latin, scan.lastIndex)
      dataStart == idx + StreamReAt(scan.latin, idx)
      endstreamIdx == IndexOf(scan.latin, KwEndstream, dataStart)
      dictStart == IF idx - 2500 > 0 THEN idx - 2500 ELSE 0
      KwFlate == <<"/", "F", "l", "a", "t", "e", "D", "e", "c", "o", "d", "e">>
  IN [scan EXCEPT
        !.lastIndex = dataStart,
        !.streamKeywordIdx = idx,
        !.endstreamIdx = endstreamIdx,
        !.isFlate = Contains(Slice(scan.latin, dictStart, idx), KwFlate),
        !.rawStreamBytes = Slice(scan.latin, dataStart, endstreamIdx)]

\* one body of the loop, up to the await of inflateFlate or to its end
ScanStream ==
  /\ scan.pc = "loop"
  /\ LoopCondition
  /\ LET body == Matched
     IN /\ body.endstreamIdx # -1
        /\ scan' = IF body.isFlate THEN [body EXCEPT !.pc = "inflate"]
                   ELSE Decoded(body, body.rawStreamBytes)
  /\ UNCHANGED <<now, requestCount, requestTimestamp, settings, history, stats, pc, phase,
                 handle, snap, local, suggested, trace, written, windowSucc, windowCalls,
                 appendedOk, appendedFail, notifications, faults, saves, probe>>

\* inflateFlate settles: the loop body goes on with the inflated bytes, or
\* counts the stream and continues
InflateSettles ==
  /\ scan.pc = "inflate"
  /\ LET inflated == inflateFlate(scan.rawStreamBytes, scan.available)
     IN scan' = IF ~inflated.null /\ Len(inflated.bytes) > 0
                THEN Decoded(scan, inflated.bytes)
                ELSE Skipped(scan)
  /\ UNCHANGED <<now, requestCount, requestTimestamp, settings, history, stats, pc, phase,
                 handle, snap, local, suggested, trace, written, windowSucc, windowCalls,
                 appendedOk, appendedFail, notifications, faults, saves, probe>>

\* the loop is left, by its condition or by the break at a stream without
\* endstream, and extractPdfPreviewText returns {title, excerpt}
ScanEnds ==
  /\ scan.pc = "loop"
  /\ IF LoopCondition THEN Matched.endstreamIdx = -1 ELSE TRUE
  /\ scan' = [scan EXCEPT
                !.pc = "done",
                !.excerpt = cleanupText(Slice(JoinSpaced(scan.out), 0, scan.maxChars))]
  /\ UNCHANGED <<now, requestCount, requestTimestamp, settings, history, stats, pc, phase,
                 handle, snap, local, suggested, trace, written, windowSucc, windowCalls,
                 appendedOk, appendedFail, notifications, faults, saves, probe>>

\* a caller hands a buffer to the extractor
CallExtractor ==
  /\ scan.pc = "idle"
  /\ \E buffer \in PdfBuffers, opts \in PdfOptions, available \in BOOLEAN :
       extractPdfPreviewText(buffer, opts, available)

NextPdf ==
  \/ CallExtractor
  \/ ScanStream
  \/ InflateSettles
  \/ ScanEnds

\* no download is under way while the extractor is studied on its own
SpecPdf == InitWith(0, Configured) /\ [][NextPdf]_vars


\* the runs of Spec that start with one unit left in the open window; the
\* event loop resumes every task whose awaited call settled
InitFair == \E s \in SettingsChoices : InitWith(maxPerMinute - 1, s)

FairSpec == InitFair /\ [][Next]_vars /\ \A d \in Downloads : WF_vars(AnyStep(d))

(* ------------------------------- claims ------------------------------- *)

\* how many elements of seq are in S
Count(seq, S) == Cardinality({i \in DOMAIN seq : seq[i] \in S})

\* download d was handed to renameImage/renamePdf and its task has ended
Ended(d) == pc[d] = "done" /\ handle[d] # "other"

\* C1: when the task of an image or PDF download has terminated, exactly one
\* history entry has been appended for it (one success or one failure entry,
\* never both, never none), on every path.
C1_ExactlyOneEntry == \A d \in Downloads : Ended(d) => Len(written[d]) = 1

\* C2: every delivered download event is answered by exactly one suggest call:
\* never more than one, and under fair scheduling of the tasks eventually one,
\* also when renameImage/renamePdf rejects out of its catch block.
C2_AnsweredExactlyOnce ==
  /\ [](\A d \in Downloads : Len(suggested[d]) <= 1)
  /\ [](\A d \in Downloads : pc[d] = "done" => Len(suggested[d]) = 1)
  /\ \A d \in Downloads : (pc[d] # "idle") ~> (pc[d] = "done" /\ Len(suggested[d]) = 1)

\* C2 witness: a task whose catch block rejected has been answered once
C2_Witness ==
  \E d \in Downloads :
    /\ pc[d] = "done" /\ phase[d] = "catch"
    /\ Count(trace[d], {"fatal"}) = 1
    /\ Len(suggested[d]) = 1

\* the errors of the stages of a rename
StageErrors == {ErrToken, ErrRateLimit, ErrFetch, ErrTooLarge, ErrPrepare, ErrApi}

\* a stage of the rename of download d has failed
StageFailed(d) == phase[d] = "catch" /\ local[d].error \in StageErrors

StageTags == {"consume", "limited", "fetch", "prepare", "extract", "remote"}

\* the stages download d has started, in order
StagesOf(d) == SelectSeq(trace[d], LAMBDA tag : tag \in StageTags)

\* the stages that have been started when the stage failing with msg fails
StagesUpTo(d, msg) ==
  IF msg = ErrToken THEN <<>>
  ELSE IF msg = ErrRateLimit THEN <<"limited">>
  ELSE IF msg \in {ErrFetch, ErrTooLarge} THEN <<"consume", "fetch">>
  ELSE IF msg = ErrPrepare THEN <<"consume", "fetch", "prepare">>
  ELSE <<"consume", "fetch", IF handle[d] = "image" THEN "prepare" ELSE "extract", "remote">>

\* no stage was started after the one that failed, and nothing was recorded
\* as a success
ShortCircuited(d) ==
  /\ StagesOf(d) = StagesUpTo(d, local[d].error)
  /\ Count(trace[d], {"appendOk", "statsOk"}) = 0
  /\ \A i \in DOMAIN written[d] : ~written[d][i].success

\* exactly one failure entry with a non-empty message was recorded for d
OneFailureEntry(d) ==
  /\ Len(written[d]) = 1
  /\ ~written[d][1].success
  /\ written[d][1].error # ""
  /\ written[d][1].error = local[d].error

Quiescent == \A d \in Downloads : pc[d] \in {"idle", "done"}

\* C4: whenever no task is in flight, the stats counters equal the numbers of
\* history entries appended since install (all, successes, failures), also
\* for downloads whose tasks overlap.
C4_StatsMatchAppends ==
  Quiescent =>
    /\ stats.totalRenames = appendedOk + appendedFail
    /\ stats.successful = appendedOk
    /\ stats.failed = appendedFail

\* C5: no write of updateStats lowers a persisted counter, under any
\* interleaving of the tasks.
C5_CountersNeverDecrease ==
  [][/\ stats'.totalRenames >= stats.totalRenames
     /\ stats'.successful >= stats.successful
     /\ stats'.failed >= stats.failed
     /\ \A m \in Methods : stats'.bySource[m] >= stats.bySource[m]]_vars

\* entry e is in the stored history
Stored(e) == \E j \in DOMAIN history : history[j] = e

\* C6: once all tasks have ended and fewer than 100 entries were appended in
\* total, the stored history holds the entry of every addToHistory call.
C6_NoEntryLost ==
  (Quiescent /\ appendedOk + appendedFail < HistoryCap) =>
    \A d \in Downloads : \A i \in DOMAIN written[d] : Stored(written[d][i])

\* download d completes an addToHistory call in this step
Appends(d) == written'[d] # written[d]

\* C7: after every addToHistory call the stored history has at most 100
\* entries, the new entry is at index 0, behind it are the previously stored
\* entries in their order, and only entries pushed past index 99 are dropped.
C7_AppendKeepsStoredEntries ==
  [][\A d \in Downloads :
       Appends(d) =>
         /\ Len(history') <= HistoryCap
         /\ Len(history') = Min(Len(history) + 1, HistoryCap)
         /\ history'[1] = written'[d][Len(written'[d])]
         /\ \A i \in 2..Len(history') : history'[i] = history[i - 1]]_vars

\* download d calls checkRateLimit in this step
Checks(d) ==
  /\ Len(trace'[d]) = Len(trace[d]) + 1
  /\ trace'[d][Len(trace'[d])] \in {"consume", "limited"}

\* the checkRateLimit call of d in this step throws
Throws(d) == trace'[d][Len(trace'[d])] = "limited"

\* C8: requestCount stays within 0..30, and once 30 calls have succeeded in
\* the current window every further call in that window throws and leaves
\* requestCount and requestTimestamp as they were.
C8_CeilingHolds ==
  /\ [](0 <= requestCount /\ requestCount <= maxPerMinute)
  /\ [][\A d \in Downloads :
          (Checks(d) /\ windowSucc = maxPerMinute /\ now - requestTimestamp < WindowMs) =>
            /\ Throws(d)
            /\ requestCount' = requestCount
            /\ requestTimestamp' = requestTimestamp]_vars

\* C8 witness: the window is exhausted and a call made in it was refused
C8_Witness ==
  /\ requestCount = maxPerMinute /\ windowSucc = maxPerMinute
  /\ now - requestTimestamp < WindowMs
  /\ \E d \in Downloads : Count(trace[d], {"limited"}) = 1

\* C9: a checkRateLimit call made when 60000 ms or more have passed since the
\* window start succeeds, sets the window start to the current time and leaves
\* the counter at 1; nothing else moves the window start.
C9_ResetAtSixtySeconds ==
  [][/\ \A d \in Downloads :
          Checks(d) =>
            IF now - requestTimestamp >= WindowMs
            THEN ~Throws(d) /\ requestTimestamp' = now /\ requestCount' = 1
            ELSE requestTimestamp' = requestTimestamp
     /\ (\A d \in Downloads : ~Checks(d)) =>
          requestTimestamp' = requestTimestamp /\ requestCount' = requestCount]_vars

\* the positions of seq that hold tag
Positions(seq, tag) == {i \in DOMAIN seq : seq[i] = tag}

\* C10: every file fetch and every remote model call of a task comes after a
\* successful checkRateLimit of that task, and the remote calls of the tasks
\* that consumed in one window number at most the per-minute ceiling.
C10_ConsumeBeforeNetwork ==
  /\ \A d \in Downloads :
       \A i \in Positions(trace[d], "fetch") \cup Positions(trace[d], "remote") :
         \E j \in Positions(trace[d], "consume") : j < i
  /\ \A w \in Instants : windowCalls[w] <= maxPerMinute

\* C10 witness: the tasks of one window have made 30 remote calls and a
\* further download was refused by checkRateLimit
C10_Witness ==
  /\ \E d \in Downloads :
       /\ Positions(trace[d], "remote") # {}
       /\ windowCalls[local[d].win] = maxPerMinute
  /\ \E d \in Downloads : Positions(trace[d], "limited") # {}

\* with skipping on, download d has fetched an image below minImageSize
FetchedSmall(d) == Positions(trace[d], "small") # {}

\* C11: when skipSmallImages is on and the fetched image is smaller than
\* minImageSize, the task calls neither prepareImageForAPI nor captionImage,
\* writes no history entry and no stats, returns null, and the download is
\* answered with no replacement filename; the step that skips and the
\* steps after it leave the stored history and stats as they are.
C11_SmallImageSkipped ==
  /\ [](\A d \in Downloads :
         FetchedSmall(d) =>
           /\ Count(trace[d], {"prepare", "remote", "appendOk", "appendFail",
                               "statsOk", "statsFail"}) = 0
           /\ written[d] = <<>>
           /\ pc[d] \in {"return", "done"}
           /\ local[d].newName = Null
           /\ pc[d] = "done" => suggested[d] = <<Null>>)
  /\ [][\A d \in Downloads :
          (FetchedSmall(d)' /\ pc'[d] # pc[d]) => history' = history /\ stats' = stats]_vars

\* C11 witness: a small image was skipped while the store holds the entry of
\* another download, and was answered with no filename
C11_Witness ==
  \E d \in Downloads :
    /\ FetchedSmall(d) /\ pc[d] = "done" /\ suggested[d] = <<Null>>
    /\ written[d] = <<>>
    /\ \E e \in Downloads : e # d /\ written[e] # <<>>

\* download d runs notify in this step
Notifies(d) == pc[d] = "notify" /\ pc'[d] = "return"

\* C12: every settings-dependent decision of one rename uses the settings
\* read at its start (snap[d]): the file name is built with the snapshot's
\* slug options, and notify shows a notification exactly when the snapshot
\* has notifications on, whatever was saved while the task was in flight.
C12_SingleSnapshot ==
  /\ [](\A d \in Downloads :
         local[d].finalName # Null =>
           local[d].finalName[1] =
             captionToFilename(callChatCompletions(local[d].resp).text, snap[d]))
  /\ [][\A d \in Downloads :
          Notifies(d) =>
            notifications' =
              notifications + (IF snap[d].enableNotifications THEN 1 ELSE 0)]_vars

\* the positions of trace[d] at which a success or a failure was recorded
Recorded(d) == Positions(trace[d], "appendOk") \cup Positions(trace[d], "appendFail")

\* the positions of trace[d] at which a stage of the rename was started
Staged(d) == {i \in DOMAIN trace[d] : trace[d][i] \in StageTags}

\* C13: one download task makes at most one file fetch, at most one
\* checkRateLimit call (so at most one consumption) and at most one remote
\* model call, and starts no stage after it has recorded a success or a
\* failure.
C13_SingleAttempt ==
  \A d \in Downloads :
    /\ Count(trace[d], {"fetch"}) <= 1
    /\ Count(trace[d], {"consume", "limited"}) <= 1
    /\ Count(trace[d], {"remote"}) <= 1
    /\ \A i \in Recorded(d) : \A j \in Staged(d) : j < i

\* C13 witness: a task recorded a success, an awaited call then rejected
\* and it recorded a failure too, having fetched and called the model once
C13_Witness ==
  \E d \in Downloads :
    /\ pc[d] = "done"
    /\ Positions(trace[d], "appendOk") # {} /\ Positions(trace[d], "appendFail") # {}
    /\ Count(trace[d], {"fetch"}) = 1 /\ Count(trace[d], {"remote"}) = 1

\* a 2xx response whose choices[0].message.content is missing, empty or
\* not a string
NoCaptionIn(resp) ==
  /\ resp.net /\ ResponseOk(resp)
  /\ \/ ~resp.json
     \/ resp.content.type # "string"
     \/ resp.content.text = <<>>

\* C14: a 2xx response whose content is missing, empty or not a string makes
\* the remote call fail: the task enters its catch block with no file name,
\* and ends with one failure entry and no replacement filename.
C14_EmptyContentFails ==
  \A d \in Downloads :
    NoCaptionIn(local[d].resp) =>
      /\ phase[d] = "catch"
      /\ local[d].finalName = Null
      /\ pc[d] = "done" =>
           /\ suggested[d] = <<Null>>
           /\ Len(written[d]) = 1 /\ ~written[d][1].success

\* the error outcome the HTTP status of a non-2xx response selects
StatusClass(status) ==
  IF status \in {401, 403} THEN "auth"
  ELSE IF status = 402 THEN "billing"
  ELSE IF status = 429 THEN "rateLimit"
  ELSE IF status = 404 THEN "notFound"
  ELSE "generic"

\* resp is a non-2xx response
Refused(resp) == resp.net /\ ~ResponseOk(resp)

\* C15: the error a non-2xx response raises is decided by its HTTP status:
\* responses of different status classes (401/403, 402, 429, 404, other)
\* raise different errors, responses of one of the four named classes raise
\* the same error whatever the payload, and generic errors of different
\* statuses differ.
C15_StatusDecidesError ==
  \A d \in Downloads :
    Refused(local[d].resp) =>
      \A other \in Responses :
        Refused(other) =>
          /\ StatusClass(other.status) # StatusClass(local[d].resp.status) =>
               callChatCompletions(other).message # local[d].error
          /\ ( /\ StatusClass(other.status) = StatusClass(local[d].resp.status)
               /\ StatusClass(other.status) # "generic" ) =>
               callChatCompletions(other).message = local[d].error
          /\ ( /\ StatusClass(other.status) = "generic"
               /\ StatusClass(local[d].resp.status) = "generic"
               /\ other.status # local[d].resp.status ) =>
               callChatCompletions(other).message # local[d].error

\* C16: testConnection never rejects; it resolves with a record whose
\* message is not empty, and whose success is true only if the endpoint
\* answered with a 2xx status and a text that contains OK.
C16_ProbeAlwaysResolves ==
  probe.tested =>
    /\ ~probe.rejected
    /\ probe.result.message # ""
    /\ probe.result.success =>
         /\ probe.resp.net /\ ResponseOk(probe.resp) /\ probe.resp.json
         /\ probe.resp.content.type = "string"
         /\ Includes(toUpperCase(probe.resp.content.text), OK)

\* C16 witness: the endpoint answered 200 with a text without OK, and the
\* test resolved as not successful
C16_Witness ==
  /\ probe.tested /\ ~probe.rejected
  /\ probe.resp = Reply(200, "", "", StringContent(Cat))
  /\ ~probe.result.success /\ probe.result.message = MsgUnexpected

\* str.split(sep): the pieces of str between the occurrences of sep
RECURSIVE SplitOn(_, _)
SplitOn(str, sep) ==
  LET stops == {i \in DOMAIN str : str[i] = sep}
  IN IF stops = {} THEN <<str>>
     ELSE LET first == CHOOSE i \in stops : \A j \in stops : i <= j
          IN <<SubSeq(str, 1, first - 1)>> \o SplitOn(SubSeq(str, first + 1, Len(str)), sep)

\* the task of download d has built a file name from a caption
Named(d) == local[d].finalName # Null

\* the caption and the stem captionToFilename made of it
CaptionOf(d) == callChatCompletions(local[d].resp).text
StemOf(d) == local[d].finalName[1]

\* str matches ^[a-z0-9]+(-[a-z0-9]+)*$
IsSlug(str) ==
  /\ str # <<>>
  /\ \A i \in DOMAIN str : IsSlugChar(str[i]) \/ str[i] = "-"
  /\ \A piece \in Range(SplitOn(str, "-")) : piece # <<>>

\* C17: with addDateSuffix off, the stem captionToFilename returns matches
\* ^[a-z0-9]+(-[a-z0-9]+)*$ or is the fallback literal, for every caption.
C17_StemIsSlug ==
  \A d \in Downloads :
    (Named(d) /\ ~snap[d].addDateSuffix) => IsSlug(StemOf(d)) \/ StemOf(d) = Fallback

\* C18: captionToFilename returns no empty stem; when the cleaned caption is
\* empty or shorter than 2 characters the stem is the fallback literal,
\* followed by -YYYY-MM-DD when addDateSuffix is on.
C18_FallbackBeforeDate ==
  \A d \in Downloads :
    Named(d) =>
      /\ StemOf(d) # <<>>
      /\ Len(Cleaned(CaptionOf(d), snap[d])) < 2 =>
           StemOf(d) = IF snap[d].addDateSuffix THEN Fallback \o <<"-">> \o Today
                       ELSE Fallback

\* the connective prepositions, and the articles
Prepositions ==
  { <<"o", "n">>, <<"i", "n">>, <<"a", "t">>, <<"w", "i", "t", "h">>, <<"b", "y">>,
    <<"o", "f">> }
ArticleWords == Range(Articles)

\* the words of a caption: lower case, punctuation removed, split at whitespace
CaptionWords(caption) ==
  Words(trim(NormalizeSpaces(RemovePunctuation(toLowerCase(caption)))))

\* white-cat-sitting-floor
WhiteCatStem ==
  <<"w", "h", "i", "t", "e", "-", "c", "a", "t", "-", "s", "i", "t", "t", "i", "n", "g",
    "-", "f", "l", "o", "o", "r">>

\* C19: a preposition (on, in, at, with, by, of) standing between two words
\* of the caption is not among the tokens of the stem, with cleanCaptions on
\* no article is, and "a white cat sitting on floor" with cleanCaptions on
\* and maxWords 4 gives white-cat-sitting-floor.
C19_ConnectivesRemoved ==
  \A d \in Downloads :
    (Named(d) /\ ~snap[d].addDateSuffix) =>
      /\ \A i \in 2..(Len(CaptionWords(CaptionOf(d))) - 1) :
           CaptionWords(CaptionOf(d))[i] \in Prepositions =>
             CaptionWords(CaptionOf(d))[i] \notin Range(SplitOn(StemOf(d), "-"))
      /\ snap[d].cleanCaptions =>
           \A token \in Range(SplitOn(StemOf(d), "-")) : token \notin ArticleWords
      /\ ( /\ CaptionOf(d) = WhiteCat
           /\ snap[d].cleanCaptions
           /\ snap[d].maxWords = 4 ) => StemOf(d) = WhiteCatStem

\* C20: with maxWords >= 1 and addDateSuffix off, the stem has at most
\* maxWords hyphen-separated (non-empty) tokens.
C20_AtMostMaxWords ==
  \A d \in Downloads :
    (Named(d) /\ ~snap[d].addDateSuffix /\ snap[d].maxWords >= 1) =>
      Cardinality({i \in DOMAIN SplitOn(StemOf(d), "-") :
                     SplitOn(StemOf(d), "-")[i] # <<>>}) <= snap[d].maxWords

\* C21: with addDateSuffix off, the stem captionToFilename returns has at
\* most 60 characters and does not end with a hyphen.
C21_StemCapped ==
  \A d \in Downloads :
    (Named(d) /\ ~snap[d].addDateSuffix) =>
      /\ Len(StemOf(d)) <= 60
      /\ StemOf(d)[Len(StemOf(d))] # "-"

\* download d is a PDF and its task has found enablePdfRenaming off
GatedPdf(d) ==
  /\ handle[d] = "pdf" /\ ~snap[d].enablePdfRenaming
  /\ pc[d] \notin {"idle", "settings"}

\* C25: with enablePdfRenaming off a PDF download consumes no rate-limit
\* unit, fetches nothing, calls no model, writes no history entry and no
\* stats, and is answered with no replacement filename; the steps of its
\* task leave the counter, the window start, the history and the stats as
\* they are.
C25_DisabledPdfUntouched ==
  /\ [](\A d \in Downloads :
          GatedPdf(d) =>
            /\ StagesOf(d) = <<>>
            /\ Count(trace[d], {"appendOk", "appendFail", "statsOk", "statsFail"}) = 0
            /\ written[d] = <<>>
            /\ pc[d] = "done" => suggested[d] = <<Null>>)
  /\ [][\A d \in Downloads :
          (handle[d] = "pdf" /\ ~settings.enablePdfRenaming /\ pc'[d] # pc[d]) =>
            UNCHANGED <<requestCount, requestTimestamp, history, stats>>]_vars

\* C25 witness: a PDF download with enablePdfRenaming off has been answered
C25_Witness ==
  \E d \in Downloads :
    GatedPdf(d) /\ pc[d] = "done" /\ trace[d] = <<>> /\ suggested[d] = <<Null>>

\* the listener receives item as download d in this step
Delivered(d, item) == pc[d] = "idle" /\ OnDeterminingFilename(d, item)

\* C26: a delivered download is classified once, as image when isImage
\* holds, else as PDF when isPdf holds, else as other, and the class never
\* changes; a download classified as other is answered in the same step with
\* no replacement filename, starts no task, and the step changes neither the
\* rate-limit counter and window start nor the history or the stats.
C26_ClassifiedOnce ==
  /\ [][\A d \in Downloads, item \in DownloadItems :
          Delivered(d, item) =>
            /\ isImage(item) => handle'[d] = "image"
            /\ (~isImage(item) /\ isPdf(item)) => handle'[d] = "pdf"
            /\ (~isImage(item) /\ ~isPdf(item)) =>
                 /\ handle'[d] = "other"
                 /\ suggested'[d] = <<Null>> /\ pc'[d] = "done"
                 /\ UNCHANGED <<requestCount, requestTimestamp, history, stats>>]_vars
  /\ [][\A d \in Downloads : pc[d] # "idle" => handle'[d] = handle[d]]_vars
  /\ [](\A d \in Downloads :
          (pc[d] # "idle" /\ handle[d] = "other") =>
            /\ pc[d] = "done" /\ suggested[d] = <<Null>>
            /\ trace[d] = <<>> /\ written[d] = <<>>)

\* C26 witness: an item that passes both tests (file name .png, URL .pdf) was
\* classified as an image and its task has ended
C26_Witness ==
  \E d \in Downloads :
    /\ handle[d] = "image" /\ local[d].ext = "png"
    /\ pc[d] = "done"

\* the task of download d goes on from getSettings() in this step while the
\* token is empty (and, for a PDF, renaming is enabled)
BeginsWithoutToken(d) ==
  /\ pc[d] = "settings" /\ pc'[d] \notin {"settings", "done"}
  /\ settings.hfToken = ""
  /\ ~(handle[d] = "pdf" /\ ~settings.enablePdfRenaming)

\* the task of download d has thrown the configuration error
ConfigFailed(d) == phase[d] = "catch" /\ local[d].error = ErrToken

\* what C27 says of every step and state, but for the number of entries
ConfigErrorFirst ==
  /\ [][\A d \in Downloads :
          BeginsWithoutToken(d) =>
            /\ phase'[d] = "catch" /\ local'[d].error = ErrToken
            /\ UNCHANGED <<requestCount, requestTimestamp>>]_vars
  /\ [](\A d \in Downloads : ConfigFailed(d) => StagesOf(d) = <<>>)

RECURSIVE SourceSum(_, _)
SourceSum(st, S) ==
  IF S = {} THEN 0
  ELSE LET m == CHOOSE x \in S : TRUE IN st.bySource[m] + SourceSum(st, S \ {m})

\* the counters of the stats record st agree with each other
Consistent(st) ==
  /\ st.totalRenames = st.successful + st.failed
  /\ st.totalRenames = SourceSum(st, Methods)
  /\ st.bySource["error"] = st.failed
  /\ SourceSum(st, Methods \ {"error"}) = st.successful

\* C28: every stats record in storage is consistent, whatever the
\* interleaving of the tasks: totalRenames = successful + failed = the sum of
\* the bySource counts, bySource['error'] = failed, and the other bySource
\* counts add up to successful.
C28_StatsConsistent == Consistent(stats)

\* C28 witness: a failure and a success have been counted by overlapping
\* tasks, one of which overwrote the other's record
C28_Witness ==
  /\ \A d \in Downloads : Count(trace[d], {"statsOk", "statsFail"}) = 1
  /\ \E d \in Downloads : Count(trace[d], {"statsFail"}) = 1
  /\ stats.totalRenames < appendedOk + appendedFail

\* the replacement filenames suggest was called with for download d
NamesSuggested(d) == {suggested[d][i] : i \in DOMAIN suggested[d]} \ {Null}

\* C29: when suggest has been called with a replacement filename for a
\* download, its task has stored a success:true history entry whose renamed
\* field is that filename and has stored its success stats; and no
\* replacement filename is suggested for a download whose task stored a
\* failure entry.
C29_RecordedBeforeAnswered ==
  \A d \in Downloads :
    \A name \in NamesSuggested(d) :
      /\ \E i \in DOMAIN written[d] : written[d][i].success /\ written[d][i].renamed = name
      /\ Count(trace[d], {"statsOk"}) = 1
      /\ \A i \in DOMAIN written[d] : written[d][i].success

\* C29 witness: a download has been answered with a replacement filename
C29_Witness ==
  \E d \in Downloads :
    /\ pc[d] = "done" /\ NamesSuggested(d) # {}
    /\ \E e \in Downloads : e # d /\ phase[e] = "catch" /\ written[e] # <<>>

\* C30: when checkRateLimit throws, the wait it reports is more than 0 and
\* at most 60 seconds, it covers the time that remains until the window is
\* reset (within the second the message rounds to), and a call made later
\* than the wait finds the window expired and succeeds.
C30_WaitIsRemainingTime ==
  [][\A d \in Downloads :
       (Checks(d) /\ Throws(d)) =>
         LET wait == WaitSeconds(now, requestTimestamp)
         IN /\ wait > 0 /\ wait <= 60
            /\ 1000 * (wait - 1) < WindowMs - Elapsed(now, requestTimestamp)
            /\ WindowMs - Elapsed(now, requestTimestamp) <= 1000 * wait
            /\ ~LimitReached(CountAfterReset(now + 1000 * wait + 1, requestTimestamp',
                                             requestCount'))]_vars

\* the loop bodies of the scan that could not inflate their stream
FailedBodies == {k \in DOMAIN scan.visited : ~scan.visited[k].inflated}

\* the texts the loop bodies of the scan pushed, in the order of the bodies
PushedTexts ==
  SelectSeq([k \in DOMAIN scan.visited |-> scan.visited[k].text], LAMBDA text : text # <<>>)

\* the while loop has nothing left to do: its condition is false or the next
\* stream has no endstream
LoopIsOver == IF LoopCondition THEN Matched.endstreamIdx = -1 ELSE TRUE

\* C22 as stated: when extractPdfPreviewText has returned after a scan that
\* met a FlateDecode stream it could not inflate, the excerpt contains the
\* text of every other scanned stream that yielded text.
C22_ExcerptHoldsEveryText ==
  (scan.pc = "done" /\ FailedBodies # {}) =>
    \A k \in DOMAIN scan.visited :
      scan.visited[k].text # <<>> => Contains(scan.excerpt, scan.visited[k].text)

\* C22 amended: a FlateDecode stream that cannot be inflated is counted and
\* the scan goes on: it ends only where the loop has nothing left to do, and
\* the excerpt returned is the first maxChars characters of the texts of the
\* other scanned streams, in file order and joined by spaces, so it contains
\* every one of them whenever together they are no longer than maxChars.
C22_SkippedAndScanGoesOn ==
  (scan.pc = "done" /\ FailedBodies # {}) =>
    /\ LoopIsOver
    /\ scan.streamsSeen = Len(scan.visited)
    /\ scan.excerpt = cleanupText(Slice(JoinSpaced(PushedTexts), 0, scan.maxChars))
    /\ Len(JoinSpaced(PushedTexts)) <= scan.maxChars =>
         \A k \in DOMAIN scan.visited :
           scan.visited[k].text # <<>> => Contains(scan.excerpt, scan.visited[k].text)

\* C22 witness: a scan has returned whose excerpt holds the text of a stream
\* that follows one it could not inflate
C22_Witness ==
  /\ scan.pc = "done"
  /\ \E k \in FailedBodies : \E later \in DOMAIN scan.visited :
       /\ later > k
       /\ scan.visited[later].text # <<>>
       /\ Contains(scan.excerpt, scan.visited[later].text)

\* C23: extractPdfPreviewText returns a title of at most 200 characters and
\* an excerpt of at most as many characters as the maxChars of its caller,
\* whatever number the caller passed.
C23_TitleAndExcerptCapped ==
  scan.pc = "done" =>
    /\ Len(scan.title) <= 200
    /\ scan.callerMaxChars.kind = "number" => Len(scan.excerpt) <= scan.callerMaxChars.value

\* the stream keyword at position idx belongs to no endstream keyword
GenuineStream(idx) == ~StartsAt(scan.latin, KwEndstream, idx - 3)

\* C24: the loop bodies of the scan run in file order, each on a stream
\* keyword that is not part of an endstream keyword, each counted once, and
\* never more than maxStreams of them; a scan that has returned had nothing
\* left to do.
C24_GenuinePairsCountedOnce ==
  /\ \A k \in DOMAIN scan.visited :
       /\ GenuineStream(scan.visited[k].idx)
       /\ k > 1 => scan.visited[k - 1].idx < scan.visited[k].idx
  /\ Len(scan.visited) <= scan.maxStreams
  /\ scan.pc \in {"loop", "done"} => scan.streamsSeen = Len(scan.visited)
  /\ scan.pc = "done" => LoopIsOver

====
